---- MODULE Spec2Model ----
(***************************************************************************)
(* ConcertWithFriends: the template renderer with its error fallback       *)
(* (mvc/utils.rs), the request handlers that use it, and the TicketMaster  *)
(* event-search client and JSON adapter (ticketmaster/events.rs).          *)
(*                                                                         *)
(* Text is a sequence of tokens, so that push_str/format! are sequence     *)
(* concatenation.  Option, Result and a panic (a failed unwrap) are tagged  *)
(* records.  Every request is served from "idle" and its answer is kept in  *)
(* call/ret until the response has been handed back.                       *)
(***************************************************************************)
EXTENDS Integers, Sequences, FiniteSets, TLC

VARIABLES
    debug_assertions,   \* cfg!(debug_assertions): the build profile
    templates,          \* static/html as the template environment sees it
    pc,                 \* "idle" | "done"
    call,               \* the operation in progress and its arguments
    ret                 \* what the operation returned

vars == <<debug_assertions, templates, pc, call, ret>>

----------------------------------------------------------------------------
(* Option / Result / panic *)

None == [tag |-> "None"]
Some(x) == [tag |-> "Some", val |-> x]
Ok(x) == [tag |-> "Ok", val |-> x]
Err(e) == [tag |-> "Err", err |-> e]
Panic == [tag |-> "Panic"]

NoCall == [op |-> "none"]
NoRet == [tag |-> "NoRet"]

----------------------------------------------------------------------------
(* Bounds *)

\* Number of distinct error-message texts a library error can carry.
NumErrMsgs == 2

\* Longest events array of a response, longest images array of an event, and
\* longest search term or location (in tokens).
MaxEvents == 2
MaxImages == 2
MaxTermLen == 1

\* Most path segments after /static/ in a request.
MaxPathSegs == 3

ErrMsgPool == <<"template not found", "syntax error", "undefined value",
                "io error">>
ErrMsgs == {ErrMsgPool[i] : i \in 1..NumErrMsgs}

----------------------------------------------------------------------------
(* mvc/utils.rs *)

StatusCode_OK == 200
StatusCode_INTERNAL_SERVER_ERROR == 500
StatusCode_NOT_FOUND == 404

ERROR_500_DEBUG_START == <<"ERROR_500_DEBUG_START">>
ERROR_500_DEBUG_END == <<"ERROR_500_DEBUG_END">>
ERROR_500_PROD == <<"ERROR_500_PROD">>

TemplateNames == {"index.j2", "page_not_found.j2", "internal_error.j2"}
TemplateStates == {"ok", "render_error", "missing"}

\* render("") : the empty context of render_template
EmptyContext == [kind |-> "empty"]
\* context!(debug => .., error_message => ..)
ErrorContext(debug, error_message) ==
    [kind |-> "error", debug |-> debug, error_message |-> error_message]

\* What a template file of static/html prints: its own markup, and for
\* internal_error.j2 the error message when the context says debug.
TemplateOutput(name, context) ==
    IF name = "internal_error.j2" /\ context.kind = "error" /\ context.debug
    THEN <<name>> \o <<context.error_message>>
    ELSE <<name>>

\* AutoReloader::acquire_env
acquire_env(acquire_ok, msg) ==
    IF acquire_ok THEN Ok(templates) ELSE Err(msg)

\* Environment::get_template
get_template(env, name, msg) ==
    IF name \in DOMAIN env /\ env[name] # "missing" THEN Ok(name) ELSE Err(msg)

\* Template::render
render(env, name, context, msg) ==
    IF env[name] = "ok" THEN Ok(TemplateOutput(name, context)) ELSE Err(msg)

\* internal_error reporting the status of the render it was handed.
internal_error_status_of_render(response) ==
    IF response.tag = "Some"
    THEN [status |-> IF response.val.tag = "Ok"
                     THEN StatusCode_OK
                     ELSE StatusCode_INTERNAL_SERVER_ERROR,
          body |-> IF response.val.tag = "Ok"
                   THEN response.val.val
                   ELSE IF debug_assertions
                        THEN ERROR_500_DEBUG_START \o <<response.val.err>>
                                 \o ERROR_500_DEBUG_END
                        ELSE ERROR_500_PROD]
    ELSE [status |-> StatusCode_INTERNAL_SERVER_ERROR, body |-> ERROR_500_PROD]

\* internal_error without the cfg!(debug_assertions) test.
internal_error_always_verbose(response) ==
    IF response.tag = "Some"
    THEN [status |-> StatusCode_INTERNAL_SERVER_ERROR,
          body |-> IF response.val.tag = "Ok"
                   THEN response.val.val
                   ELSE ERROR_500_DEBUG_START \o <<response.val.err>>
                            \o ERROR_500_DEBUG_END]
    ELSE [status |-> StatusCode_INTERNAL_SERVER_ERROR, body |-> ERROR_500_PROD]

internal_error(response) ==
    IF response.tag = "Some"
    THEN [status |-> StatusCode_INTERNAL_SERVER_ERROR,
          body |-> IF response.val.tag = "Ok"
                   THEN response.val.val
                   ELSE IF debug_assertions
                        THEN ERROR_500_DEBUG_START \o <<response.val.err>>
                                 \o ERROR_500_DEBUG_END
                        ELSE ERROR_500_PROD]
    ELSE [status |-> StatusCode_INTERNAL_SERVER_ERROR, body |-> ERROR_500_PROD]

\* get_error_500 answering with the plain page, internal_error.j2 untried.
get_error_500_no_fallback(error, env, errs) ==
    [resp |-> internal_error(None), trail |-> <<>>]

\* errs.fallback is the text of the error that looking up or rendering
\* internal_error.j2 raises, when it raises one.
get_error_500(error, env, errs) ==
    LET error_500 == get_template(env, "internal_error.j2", errs.fallback)
        looked == <<<<"get_template", "internal_error.j2">>>>
    IN  IF error_500.tag = "Ok"
        THEN LET template_render2 ==
                     render(env, error_500.val,
                            ErrorContext(debug_assertions, error), errs.fallback)
             IN  [resp |-> internal_error(Some(template_render2)),
                  trail |-> looked \o <<<<"render", "internal_error.j2">>>>]
        ELSE [resp |-> internal_error(Some(Err(error_500.err))),
              trail |-> looked]

\* errs.acquire, errs.lookup, errs.render: the texts of the errors that
\* acquire_env, get_template and render raise for the requested template.
\* trail lists the template-engine calls made, in order.
render_template_ctx(acquire_ok, template, context, errs) ==
    LET acquired == acquire_env(acquire_ok, errs.acquire)
        t0 == <<<<"acquire_env">>>>
    IN  IF acquired.tag = "Err"
        THEN LET r == internal_error(None)
             IN  [status |-> r.status, body |-> r.body, trail |-> t0]
        ELSE
        LET env == acquired.val
            found == get_template(env, template, errs.lookup)
            t1 == t0 \o <<<<"get_template", template>>>>
        IN  IF found.tag = "Err"
            THEN LET e == get_error_500(found.err, env, errs)
                 IN  [status |-> e.resp.status, body |-> e.resp.body,
                      trail |-> t1 \o e.trail]
            ELSE
            LET rendered == render(env, found.val, context, errs.render)
                t2 == t1 \o <<<<"render", template>>>>
            IN  IF rendered.tag = "Err"
                THEN LET r == internal_error(None)
                     IN  [status |-> r.status, body |-> r.body, trail |-> t2]
                ELSE [status |-> StatusCode_OK, body |-> rendered.val,
                      trail |-> t2]

render_template(acquire_ok, template, errs) ==
    render_template_ctx(acquire_ok, template, EmptyContext, errs)

ErrTexts == [acquire : ErrMsgs, lookup : ErrMsgs, render : ErrMsgs,
             fallback : ErrMsgs]

----------------------------------------------------------------------------
(* serde_json::Value as the adapter uses it *)

Str(s) == [t |-> "String", s |-> s]
Num(n) == [t |-> "Number", n |-> n]
Null == [t |-> "Null"]
Obj(o) == [t |-> "Object", o |-> o]
Arr(a) == [t |-> "Array", a |-> a]

\* Value::get(&str): Some only on an object that has the key.
get(v, key) ==
    IF v.t = "Object" /\ key \in DOMAIN v.o THEN Some(v.o[key]) ELSE None

\* HashMap::get / Map::get
map_get(m, key) == IF key \in DOMAIN m THEN Some(m[key]) ELSE None

as_str(v) == IF v.t = "String" THEN Some(v.s) ELSE None
as_object(v) == IF v.t = "Object" THEN Some(v.o) ELSE None
as_array(v) == IF v.t = "Array" THEN Some(v.a) ELSE None
as_i64(v) == IF v.t = "Number" THEN Some(v.n) ELSE None

\* A value computed without a panic on the way.
Val(x) == [tag |-> "Val", val |-> x]

\* `as u32` on an i64 in the 32-bit range the model's numbers have: the value
\* mod 2^32, kept as two 16-bit halves.
LIMB == 65536
SIGN_LIMB == 32768
I32_MAX == 2147483647
as_u32(n) ==
    IF n >= 0
    THEN [hi |-> n \div LIMB, lo |-> n % LIMB]
    ELSE LET m == (n + I32_MAX) + 1
         IN  [hi |-> (m \div LIMB) + SIGN_LIMB, lo |-> m % LIMB]

----------------------------------------------------------------------------
(* ticketmaster/shared.rs, ticketmaster/events.rs *)

API_PREFIX == <<"https://app.ticketmaster.com/discovery/v2/">>
EVENT_ENDPOINT == <<"events.json?">>
EVENT_PARSE_ERROR == "Failed to parse response from TicketMaster API"

TicketMasterError(message) == [message |-> message]

\* x.get(key).unwrap().as_str().unwrap().to_string()
required_str(v, key) ==
    LET f == get(v, key)
    IN  IF f.tag = "None" THEN Panic
        ELSE IF as_str(f.val).tag = "None" THEN Panic
        ELSE Val(as_str(f.val).val)

\* match x.get(key) { Some(text) => Some(text.as_str().unwrap().to_string()),
\*                    None => None }
optional_str(v, key) ==
    LET f == get(v, key)
    IN  IF f.tag = "None" THEN Val(None)
        ELSE IF as_str(f.val).tag = "None" THEN Panic
        ELSE Val(Some(as_str(f.val).val))

\* match x.get(outer) { Some(inner) => <optional_str(inner, key)>, None => None }
nested_optional_str(v, outer, key) ==
    LET f == get(v, outer)
    IN  IF f.tag = "None" THEN Val(None) ELSE optional_str(f.val, key)

\* match x.get(key) { Some(text) => Some(text.as_i64().unwrap() as u32),
\*                    None => None }
optional_u32(v, key) ==
    LET f == get(v, key)
    IN  IF f.tag = "None" THEN Val(None)
        ELSE IF as_i64(f.val).tag = "None" THEN Panic
        ELSE Val(Some(as_u32(as_i64(f.val).val)))

AnyPanic(results) == \E i \in DOMAIN results : results[i].tag = "Panic"

\* next_obj / prev_obj of parse_links: the href of one pagination link.
page_href(link) ==
    IF link.tag = "None" THEN Val(None)
    ELSE IF as_object(link.val).tag = "None" THEN Panic
    ELSE LET href == map_get(as_object(link.val).val, "href")
         IN  IF href.tag = "None" THEN Val(None)
             ELSE IF as_str(href.val).tag = "None" THEN Panic
             ELSE Val(Some(as_str(href.val).val))

parse_links(links) ==
    IF links.tag = "Some" /\ as_object(links.val).tag = "Some"
    THEN LET links_obj == as_object(links.val).val
             next_page == page_href(map_get(links_obj, "next"))
             prev_page == page_href(map_get(links_obj, "prev"))
         IN  IF AnyPanic(<<next_page, prev_page>>) THEN Panic
             ELSE Val([next_page |-> next_page.val, prev_page |-> prev_page.val])
    ELSE Val([next_page |-> None, prev_page |-> None])

\* The start / end match of parse_events_array (which is "start" or "end").
event_date(event, which) ==
    LET dates == get(event, "dates")
    IN  IF dates.tag = "None" THEN Val(None)
        ELSE LET point == get(dates.val, which)
             IN  IF point.tag = "None" THEN Val(None)
                 ELSE LET date_time == get(point.val, "dateTime")
                          date == get(point.val, "localDate")
                      IN  IF date_time.tag = "Some"
                          THEN IF as_str(date_time.val).tag = "None" THEN Panic
                               ELSE Val(Some(as_str(date_time.val).val))
                          ELSE IF date.tag = "Some"
                          THEN IF as_str(date.val).tag = "None" THEN Panic
                               ELSE Val(Some(as_str(date.val).val))
                          ELSE Val(None)

parse_event_location(event) ==
    LET place_val == get(event, "place")
    IN  IF place_val.tag = "None" THEN Val(None)
        ELSE
        LET place == place_val.val
            area == nested_optional_str(place, "area", "name")
            line1 == nested_optional_str(place, "address", "line1")
            line2 == nested_optional_str(place, "address", "line2")
            line3 == nested_optional_str(place, "address", "line3")
            city == nested_optional_str(place, "city", "name")
            state == nested_optional_str(place, "state", "name")
            country == nested_optional_str(place, "country", "name")
            country_code == nested_optional_str(place, "country", "countryCode")
            postal_code == optional_str(place, "postal_code")
            name == optional_str(place, "name")
        IN  IF AnyPanic(<<area, line1, line2, line3, city, state, country,
                          country_code, postal_code, name>>)
            THEN Panic
            ELSE Val(Some([area_name |-> area.val,
                           address_line_1 |-> line1.val,
                           address_line_2 |-> line2.val,
                           address_line_3 |-> line3.val,
                           city |-> city.val,
                           state |-> state.val,
                           country |-> <<country.val, country_code.val>>,
                           postal_code |-> postal_code.val,
                           name |-> name.val]))

\* The body of the loop of parse_event_images: images after this entry.
push_event_image(images, image) ==
    LET url == optional_str(image, "url")
    IN  IF url.tag = "Panic" THEN Panic
        ELSE IF url.val.tag = "None" THEN Val(images)
        ELSE LET width == optional_u32(image, "width")
                 height == optional_u32(image, "height")
             IN  IF AnyPanic(<<width, height>>) THEN Panic
                 ELSE Val(Append(images, [link |-> url.val.val,
                                          width |-> width.val,
                                          height |-> height.val]))

RECURSIVE event_images_loop(_, _)
event_images_loop(images, images_array) ==
    IF images_array = <<>> THEN Val(images)
    ELSE LET pushed == push_event_image(images, Head(images_array))
         IN  IF pushed.tag = "Panic" THEN Panic
             ELSE event_images_loop(pushed.val, Tail(images_array))

parse_event_images(event) ==
    LET image_val == get(event, "images")
    IN  IF image_val.tag = "None" THEN Val(<<>>)
        ELSE IF as_array(image_val.val).tag = "None" THEN Panic
        ELSE event_images_loop(<<>>, as_array(image_val.val).val)

\* The body of the loop of parse_events_array.
parse_event(event) ==
    LET name == required_str(event, "name")
        id == required_str(event, "id*")
        url == required_str(event, "url")
        description == optional_str(event, "description")
        additional_info == optional_str(event, "additionalInfo")
        start == event_date(event, "start")
        end == event_date(event, "end")
        info == optional_str(event, "info")
        please_note == optional_str(event, "pleaseNote")
        location == parse_event_location(event)
        images == parse_event_images(event)
    IN  IF AnyPanic(<<name, id, url, description, additional_info, start, end,
                      info, please_note, location, images>>)
        THEN Panic
        ELSE Val([name |-> name.val, id |-> id.val, url |-> url.val,
                  images |-> images.val, description |-> description.val,
                  additional_info |-> additional_info.val,
                  start |-> start.val, end |-> end.val, info |-> info.val,
                  please_note |-> please_note.val, location |-> location.val])

RECURSIVE events_loop(_, _)
events_loop(result, events_array) ==
    IF events_array = <<>> THEN Val(result)
    ELSE LET event == parse_event(Head(events_array))
         IN  IF event.tag = "Panic" THEN Panic
             ELSE events_loop(Append(result, event.val), Tail(events_array))

parse_events_array(events_array) == events_loop(<<>>, events_array)

parse_event_response(event) ==
    LET links == map_get(event, "_links")
        pages == parse_links(links)
        embedded_container == map_get(event, "_embedded")
    IN  IF pages.tag = "Panic" THEN Panic
        ELSE IF embedded_container.tag = "None"
        THEN Err(TicketMasterError(Some(EVENT_PARSE_ERROR)))
        ELSE IF as_object(embedded_container.val).tag = "None" THEN Panic
        ELSE
        LET events_array_val ==
                map_get(as_object(embedded_container.val).val, "events")
        IN  IF events_array_val.tag = "None"
            THEN Err(TicketMasterError(Some(EVENT_PARSE_ERROR)))
            ELSE IF as_array(events_array_val.val).tag = "None" THEN Panic
            ELSE LET events ==
                         parse_events_array(as_array(events_array_val.val).val)
                 IN  IF events.tag = "Panic" THEN Panic
                     ELSE Ok([next_page |-> pages.val.next_page,
                              prev_page |-> pages.val.prev_page,
                              events |-> events.val])

EventParams_new(api_key, search_terms, location) ==
    IF search_terms.tag = "None" /\ location.tag = "None"
    THEN Err(TicketMasterError(None))
    ELSE Ok([api_key |-> api_key, search_terms |-> search_terms,
             location |-> location])

\* get_events pushing "&" before the location without testing has_argument.
get_events_endpoint_always_joins(args) ==
    LET endpoint1 == IF args.search_terms.tag = "Some"
                     THEN API_PREFIX \o args.search_terms.val
                     ELSE API_PREFIX
    IN  IF args.location.tag = "Some"
        THEN endpoint1 \o <<"&">> \o args.location.val
        ELSE endpoint1

\* The endpoint string get_events builds and requests.
get_events_endpoint(args) ==
    LET endpoint0 == API_PREFIX
        endpoint1 == IF args.search_terms.tag = "Some"
                     THEN endpoint0 \o args.search_terms.val
                     ELSE endpoint0
        has_argument == args.search_terms.tag = "Some"
    IN  IF args.location.tag = "Some"
        THEN (IF has_argument THEN endpoint1 \o <<"&">> ELSE endpoint1)
                 \o args.location.val
        ELSE endpoint1

\* response: what client.get(endpoint).send().await?.json().await? came to.
get_events(args, response) ==
    LET endpoint == get_events_endpoint(args)
    IN  [endpoint |-> endpoint,
         result |->
             IF response.kind # "json" THEN Err([transport |-> response.kind])
             ELSE LET parsed == parse_event_response(response.doc)
                  IN  IF parsed.tag = "Ok" THEN Ok(parsed.val)
                      ELSE IF parsed.tag = "Err" THEN Err(parsed.err)
                      ELSE Panic]

----------------------------------------------------------------------------
(* settings.rs: the environment the settings end up with *)

\* Text that is matched letter by letter is a sequence of one-letter strings.
CasePairs ==
    {<<"A", "a">>, <<"B", "b">>, <<"C", "c">>, <<"D", "d">>,
     <<"E", "e">>, <<"F", "f">>, <<"G", "g">>, <<"H", "h">>,
     <<"I", "i">>, <<"J", "j">>, <<"K", "k">>, <<"L", "l">>,
     <<"M", "m">>, <<"N", "n">>, <<"O", "o">>, <<"P", "p">>,
     <<"Q", "q">>, <<"R", "r">>, <<"S", "s">>, <<"T", "t">>,
     <<"U", "u">>, <<"V", "v">>, <<"W", "w">>, <<"X", "x">>,
     <<"Y", "y">>, <<"Z", "z">>}

lower_char(c) ==
    IF \E p \in CasePairs : p[1] = c
    THEN (CHOOSE p \in CasePairs : p[1] = c)[2]
    ELSE c

upper_char(c) ==
    IF \E p \in CasePairs : p[2] = c
    THEN (CHOOSE p \in CasePairs : p[2] = c)[1]
    ELSE c

RECURSIVE to_lowercase(_)
to_lowercase(s) ==
    IF s = <<>> THEN <<>>
    ELSE <<lower_char(Head(s))>> \o to_lowercase(Tail(s))

RECURSIVE to_uppercase(_)
to_uppercase(s) ==
    IF s = <<>> THEN <<>>
    ELSE <<upper_char(Head(s))>> \o to_uppercase(Tail(s))

\* enum ENV and the names its derived Deserialize knows the variants by.
ENV == {"Development", "Testing", "Production"}

VariantName(variant) ==
    CASE variant = "Development" -> <<"D", "e", "v", "e", "l", "o", "p", "m", "e", "n", "t">>
      [] variant = "Testing" -> <<"T", "e", "s", "t", "i", "n", "g">>
      [] variant = "Production" -> <<"P", "r", "o", "d", "u", "c", "t", "i", "o", "n">>

\* impl From<&str> for ENV
ENV_from(env) ==
    LET lowered == to_lowercase(env)
    IN  IF lowered \in {<<"d", "e", "v">>, <<"d", "e", "v", "e", "l", "o", "p", "m", "e", "n", "t">>}
        THEN "Development"
        ELSE IF lowered \in {<<"p", "r", "o", "d">>, <<"p", "r", "o", "d", "u", "c", "t", "i", "o", "n">>}
        THEN "Production"
        ELSE "Testing"

\* config::ConfigError, by what it reports.
ConfigError(description) == [description |-> description]

CONFIG_FILE_NAME == <<"D", "e", "f", "a", "u", "l", "t">>

\* File::with_name: a file of that name, any extension, in ./config; the
\* file system decides whether letter case matters.
file_exists(dir, name) ==
    \E f \in dir.names :
        IF dir.case_insensitive THEN to_lowercase(f) = to_lowercase(name)
        ELSE f = name

\* The derived Deserialize of ENV, fed the string the configuration holds
\* under "env"; the config crate compares variant names exactly or without
\* regard to case, depending on its version.
deserialize_ENV(value, caseless_variants) ==
    LET matches(v) == IF caseless_variants
                      THEN to_lowercase(VariantName(v)) = to_lowercase(value)
                      ELSE VariantName(v) = value
    IN  IF \E v \in ENV : matches(v)
        THEN Ok(CHOOSE v \in ENV : matches(v))
        ELSE Err(ConfigError("unknown variant"))

\* Settings::new
Settings_new(server_env, dir) ==
    LET env == IF server_env.tag = "Some" THEN server_env.val
               ELSE VariantName("Development")
    IN  IF ~file_exists(dir, CONFIG_FILE_NAME) THEN Err(ConfigError("not found"))
        ELSE IF ~file_exists(dir, env) THEN Err(ConfigError("not found"))
        ELSE IF ~dir.complete THEN Err(ConfigError("missing field"))
        ELSE LET merged == IF dir.file_env.tag = "Some" THEN dir.file_env.val
                           ELSE env
                 parsed == deserialize_ENV(merged, dir.caseless_variants)
             IN  IF parsed.tag = "Err" THEN parsed
                 ELSE Ok([env |-> parsed.val])

\* Values of SERVER_ENV: each word in lower case, capitalised and in capitals.
EnvWords == {<<"d", "e", "v", "e", "l", "o", "p", "m", "e", "n", "t">>, <<"t", "e", "s", "t", "i", "n", "g">>, <<"p", "r", "o", "d", "u", "c", "t", "i", "o", "n">>,
             <<"d", "e", "v">>, <<"p", "r", "o", "d">>, <<"s", "t", "a", "g", "i", "n", "g">>}

Capitalised(w) == <<upper_char(Head(w))>> \o Tail(w)

EnvStrings == EnvWords \cup {Capitalised(w) : w \in EnvWords}
                       \cup {to_uppercase(w) : w \in EnvWords}

\* The ./config directory: without Default, with Default only, with the three
\* environment files, or with those and a file named as SERVER_ENV asks.
ConfigNames(kind, requested) ==
    CASE kind = "empty" -> {}
      [] kind = "default" -> {CONFIG_FILE_NAME}
      [] kind = "canonical" ->
            {CONFIG_FILE_NAME} \cup {VariantName(v) : v \in ENV}
      [] kind = "requested" ->
            {CONFIG_FILE_NAME} \cup {VariantName(v) : v \in ENV}
                \cup (IF requested.tag = "Some" THEN {requested.val} ELSE {})

ConfigKinds == {"empty", "default", "canonical", "requested"}

ConfigDirs(requested) ==
    {[names |-> ConfigNames(kind, requested),
      case_insensitive |-> ci, complete |-> complete,
      file_env |-> fe, caseless_variants |-> cv] :
        kind \in ConfigKinds, ci \in BOOLEAN, complete \in BOOLEAN,
        fe \in {None, Some(VariantName("Production"))}, cv \in BOOLEAN}

----------------------------------------------------------------------------
(* main.rs and mvc/controllers/errors.rs: the not-found and error handlers *)

\* (status, Html(body)) as a handler returns it.
Response(status, body) == [tag |-> "Response", status |-> status, body |-> body]

\* main.rs: the fallback the router is built with.
main_page_not_found(acquire_ok, errs) ==
    LET acquired == acquire_env(acquire_ok, errs.acquire)
    IN  IF acquired.tag = "Err" THEN Panic
        ELSE LET found == get_template(acquired.val, "page_not_found.j2",
                                       errs.lookup)
             IN  IF found.tag = "Err" THEN Panic
                 ELSE LET template == render(acquired.val, found.val,
                                             EmptyContext, errs.render)
                      IN  IF template.tag = "Err" THEN Panic
                          ELSE Response(StatusCode_NOT_FOUND, template.val)

\* mvc/controllers/errors.rs
errors_page_not_found(acquire_ok, errs) ==
    LET rendered == render_template(acquire_ok, "page_not_found.j2", errs)
        status_result == IF rendered.status = StatusCode_INTERNAL_SERVER_ERROR
                         THEN rendered.status
                         ELSE StatusCode_NOT_FOUND
    IN  Response(status_result, rendered.body)

\* mvc/controllers/errors.rs: the tuple built from the rendered text is a
\* statement, so the handler returns (), which answers 200 with no body.
errors_internal_error(acquire_ok, errs) ==
    LET rendered == render_template(acquire_ok, "internal_error.j2", errs)
        discarded == Response(StatusCode_INTERNAL_SERVER_ERROR, rendered.body)
    IN  Response(StatusCode_OK, <<>>)

----------------------------------------------------------------------------
(* main.rs / mvc/controllers/basics.rs: static files *)

\* The files of the working directory, by their location below it.
Files ==
    {<<"static", "css", "site.css">>, <<"static", "html", "index.j2">>,
     <<"config", "Default.toml">>}

\* The directories: every proper prefix of a file's location.
Dirs == {SubSeq(f, 1, n) : f \in Files, n \in 0..2}

STATIC_ROOT == <<"static">>

RECURSIVE trim_start_matches(_, _)
trim_start_matches(text, ch) ==
    IF text # <<>> /\ Head(text) = ch
    THEN trim_start_matches(Tail(text), ch)
    ELSE text

\* format!("static/{}", path.trim_start_matches('/'))
static_path(path) == <<"static", "/">> \o trim_start_matches(path, "/")

IsName(token) == token # "/"

\* The components of a path, as the operating system splits it.
Components(path) == SelectSeq(path, IsName)

\* One step of path resolution from the location cur (below or above the
\* working directory): ".." leaves the directory, a name enters it.
step_into(cur, name) ==
    IF name = ".."
    THEN IF cur = <<>> \/ cur[Len(cur)] = ".."
         THEN cur \o <<"..">>
         ELSE SubSeq(cur, 1, Len(cur) - 1)
    ELSE cur \o <<name>>

IsDir(location) ==
    \/ location \in Dirs
    \/ \A i \in DOMAIN location : location[i] = ".."

\* The location open() reaches for the components, None when a component on
\* the way is no directory.
RECURSIVE resolve(_, _)
resolve(cur, components) ==
    IF components = <<>> THEN Some(cur)
    ELSE IF ~IsDir(cur) THEN None
    ELSE resolve(step_into(cur, Head(components)), Tail(components))

\* std::fs::read_to_string: the file read and its contents, or an error.
read_to_string(path) ==
    LET location == resolve(<<>>, Components(path))
    IN  IF location.tag = "Some" /\ location.val \in Files
        THEN Ok([file |-> location.val, contents |-> <<"contents of">> \o location.val])
        ELSE Err("io error")

\* mime_guess::from_path(&path).first_or_text_plain()
mime_guess(path) ==
    LET name == IF Components(path) = <<>> THEN ""
                ELSE Components(path)[Len(Components(path))]
    IN  IF name = "site.css" THEN "text/css"
        ELSE IF name = "Default.toml" THEN "text/x-toml"
        ELSE "text/plain"

\* read lists the file the handler read, None when it read none.
static_file(request_path) ==
    LET path == static_path(request_path)
        mime_type == mime_guess(path)
        file == read_to_string(path)
    IN  IF file.tag = "Ok"
        THEN [status |-> StatusCode_OK, content_type |-> Some(mime_type),
              body |-> file.val.contents, read |-> Some(file.val.file)]
        ELSE [status |-> StatusCode_NOT_FOUND, content_type |-> None,
              body |-> <<>>, read |-> None]

----------------------------------------------------------------------------
(* Inputs: JSON documents, search terms, network outcomes *)

Absent == [t |-> "Absent"]
EmptyMap == [k \in {} |-> Absent]
Field(key, v) == IF v.t = "Absent" THEN EmptyMap ELSE key :> v

SeqsUpTo(S, n) == UNION {[1..k -> S] : k \in 0..n}

\* An object with the fields of e and the field key.
With(e, key, v) == Obj(Field(key, v) @@ e.o)

ImageEntries ==
    {Obj(Field("url", u) @@ Field("width", w)) :
        u \in {Absent, Str("http://i1"), Str("http://i2"), Null},
        w \in {Absent, Num(10)}}
    \cup {Obj("url" :> Str("http://i1") @@ "width" :> Str("640")),
          Obj("url" :> Str("http://i2") @@ "width" :> Num(640)
                  @@ "height" :> Num(-1))}

ImagesValues ==
    {Absent, Str("none")} \cup {Arr(q) : q \in SeqsUpTo(ImageEntries, MaxImages)}

ImageEvents == {Obj(Field("images", i)) : i \in ImagesValues}

\* An event as the TicketMaster API sends it, and the same with the key the
\* adapter reads the id from.
ApiEvent == Obj("name" :> Str("Show") @@ "id" :> Str("123") @@ "url" :> Str("http://x"))
StarEvent == With(ApiEvent, "id*", Str("123"))

ScenarioImages ==
    Arr(<<Obj("url" :> Str("http://i1")), Obj("width" :> Num(10))>>)
ScenarioEvent == With(ApiEvent, "images", ScenarioImages)

RequiredFamily ==
    {Obj(Field("name", n) @@ Field("id", i) @@ Field("id*", j) @@ Field("url", u)) :
        n \in {Absent, Str("Show"), Num(1)},
        i \in {Absent, Str("123")},
        j \in {Absent, Str("456")},
        u \in {Absent, Str("http://x"), Null}}

DatePoints ==
    {Absent, Str("soon")}
    \cup {Obj(Field("dateTime", dt) @@ Field("localDate", ld)) :
            dt \in {Absent, Str("2024-05-01T20:00:00Z"), Null},
            ld \in {Absent, Str("2024-05-01"), Null}}

DatesValues ==
    {Absent, Str("tba")}
    \cup {Obj(Field("start", st) @@ Field("end", en)) :
            st \in DatePoints, en \in DatePoints}

DatesFamily == {With(StarEvent, "dates", d) : d \in DatesValues}

OptionalFamily ==
    {Obj(Field("description", d) @@ Field("additionalInfo", a)
             @@ Field("info", i) @@ Field("pleaseNote", n) @@ StarEvent.o) :
        d \in {Absent, Str("a show"), Null},
        a \in {Absent, Str("bring a coat")},
        i \in {Absent, Str("doors at 7")},
        n \in {Absent, Str("no cameras")}}

PlaceValues ==
    {Absent, Str("venue")}
    \cup {Obj(Field("name", n) @@ Field("city", c) @@ Field("country", k)
                  @@ Field("address", a) @@ Field("postal_code", z)) :
            n \in {Absent, Str("The Hall")},
            c \in {Absent, Obj("name" :> Str("Boston")), Obj("name" :> Null)},
            k \in {Absent, Obj("name" :> Str("United States")
                                   @@ "countryCode" :> Str("US"))},
            a \in {Absent, Obj("line1" :> Str("1 Main St"))},
            z \in {Absent, Str("02110")}}

PlaceFamily == {With(StarEvent, "place", pl) : pl \in PlaceValues}

ImagesFamily ==
    {With(StarEvent, "images", i) :
        i \in {Str("none"), ScenarioImages} \cup {Arr(<<e>>) : e \in ImageEntries}}

RichPool ==
    RequiredFamily \cup DatesFamily \cup OptionalFamily \cup PlaceFamily
        \cup ImagesFamily

LocalDateOnly == Obj("start" :> Obj("localDate" :> Str("2024-05-01")))

SmallPool ==
    {StarEvent, ScenarioEvent, With(ApiEvent, "dates", LocalDateOnly),
     With(StarEvent, "dates", LocalDateOnly)}

EventArrays == SeqsUpTo(SmallPool, MaxEvents) \cup {<<e>> : e \in RichPool}

PageLinks(href) ==
    {Absent, Str(href), Obj(EmptyMap), Obj("href" :> Str(href)),
     Obj("href" :> Num(2))}

LinksValues ==
    {Absent, Str("nolinks")}
    \cup {Obj(Field("next", n) @@ Field("prev", p)) :
            n \in PageLinks("/events?page=2"), p \in PageLinks("/events?page=0")}

EmbeddedValues ==
    {Absent, Str("nothing"), Obj(EmptyMap), Obj("events" :> Str("nothing"))}
    \cup {Obj("events" :> Arr(a)) : a \in SeqsUpTo(SmallPool, MaxEvents)}

Docs == {Field("_links", l) @@ Field("_embedded", e) :
            l \in LinksValues, e \in EmbeddedValues}

ApiKeys == {<<"apikey=K1">>, <<"apikey=K2">>}
TermTokens == {"keyword=rock", "city=Boston", "&"}
Terms == SeqsUpTo(TermTokens, MaxTermLen)
OptionalTerms == {None} \cup {Some(t) : t \in Terms}

NetDocs ==
    {EmptyMap,
     "_embedded" :> Obj("events" :> Arr(<<StarEvent>>)),
     "_embedded" :> Obj("events" :> Arr(<<ApiEvent>>))}

NetResponses ==
    {[kind |-> "send_error"], [kind |-> "decode_error"]}
    \cup {[kind |-> "json", doc |-> d] : d \in NetDocs}

PathSegments == {"..", "css", "site.css", "config", "Default.toml"}

RECURSIVE JoinPath(_)
JoinPath(segments) ==
    IF Len(segments) <= 1 THEN segments
    ELSE <<Head(segments), "/">> \o JoinPath(Tail(segments))

\* The text the router captures for *path in /static/*path.
RequestPaths ==
    {lead \o JoinPath(segments) :
        lead \in {<<>>, <<"/">>},
        segments \in SeqsUpTo(PathSegments, MaxPathSegs) \ {<<>>}}

----------------------------------------------------------------------------
(* State machine *)

Init ==
    /\ debug_assertions \in BOOLEAN
    /\ templates = [n \in TemplateNames |-> "ok"]
    /\ pc = "idle"
    /\ call = NoCall
    /\ ret = NoRet

\* A file under static/html is added, broken, repaired or removed; the
\* reloader hands out the new environment on the next acquire_env.
TemplatesChanged ==
    /\ pc = "idle"
    /\ \E n \in TemplateNames, s \in TemplateStates :
          /\ templates[n] # s
          /\ templates' = [templates EXCEPT ![n] = s]
    /\ UNCHANGED <<debug_assertions, pc, call, ret>>

\* A call of render_template(auto_reloader, template).
RenderTemplate ==
    /\ pc = "idle"
    /\ \E template \in TemplateNames, acquire_ok \in BOOLEAN, errs \in ErrTexts :
          /\ call' = [op |-> "render_template", template |-> template,
                      acquire_ok |-> acquire_ok, errs |-> errs]
          /\ ret' = render_template(acquire_ok, template, errs)
    /\ pc' = "done"
    /\ UNCHANGED <<debug_assertions, templates>>

\* A call of parse_event_images(event).
ParseEventImages ==
    /\ pc = "idle"
    /\ \E event \in ImageEvents :
          /\ call' = [op |-> "parse_event_images", event |-> event]
          /\ ret' = parse_event_images(event)
    /\ pc' = "done"
    /\ UNCHANGED <<debug_assertions, templates>>

\* A call of parse_events_array(events_array).
ParseEventsArray ==
    /\ pc = "idle"
    /\ \E events_array \in EventArrays :
          /\ call' = [op |-> "parse_events_array", events_array |-> events_array]
          /\ ret' = parse_events_array(events_array)
    /\ pc' = "done"
    /\ UNCHANGED <<debug_assertions, templates>>

\* A call of parse_event_response(event).
ParseEventResponse ==
    /\ pc = "idle"
    /\ \E event \in Docs :
          /\ call' = [op |-> "parse_event_response", event |-> event]
          /\ ret' = parse_event_response(event)
    /\ pc' = "done"
    /\ UNCHANGED <<debug_assertions, templates>>

\* A call of EventParams::new(api_key, search_terms, location).
NewEventParams ==
    /\ pc = "idle"
    /\ \E api_key \in ApiKeys, search_terms \in OptionalTerms,
          location \in OptionalTerms :
          /\ call' = [op |-> "EventParams::new", api_key |-> api_key,
                      search_terms |-> search_terms, location |-> location]
          /\ ret' = EventParams_new(api_key, search_terms, location)
    /\ pc' = "done"
    /\ UNCHANGED <<debug_assertions, templates>>

\* A call of get_events(client, args) with the EventParams just built.
GetEvents ==
    /\ pc = "done"
    /\ call.op = "EventParams::new"
    /\ ret.tag = "Ok"
    /\ \E response \in NetResponses :
          /\ call' = [op |-> "get_events", args |-> ret.val,
                      response |-> response]
          /\ ret' = get_events(ret.val, response)
    /\ pc' = "done"
    /\ UNCHANGED <<debug_assertions, templates>>

\* GET /static/*path
StaticFile ==
    /\ pc = "idle"
    /\ \E path \in RequestPaths :
          /\ call' = [op |-> "static_file", path |-> path]
          /\ ret' = static_file(path)
    /\ pc' = "done"
    /\ UNCHANGED <<debug_assertions, templates>>

\* An unmatched route, served by the fallback of main.rs.
MainPageNotFound ==
    /\ pc = "idle"
    /\ \E acquire_ok \in BOOLEAN, errs \in ErrTexts :
          /\ call' = [op |-> "main::page_not_found",
                      acquire_ok |-> acquire_ok, errs |-> errs]
          /\ ret' = main_page_not_found(acquire_ok, errs)
    /\ pc' = "done"
    /\ UNCHANGED <<debug_assertions, templates>>

\* An unmatched route, served by the handler of the errors controller.
ErrorsPageNotFound ==
    /\ pc = "idle"
    /\ \E acquire_ok \in BOOLEAN, errs \in ErrTexts :
          /\ call' = [op |-> "errors::page_not_found",
                      acquire_ok |-> acquire_ok, errs |-> errs]
          /\ ret' = errors_page_not_found(acquire_ok, errs)
    /\ pc' = "done"
    /\ UNCHANGED <<debug_assertions, templates>>

\* A request served by internal_error of the errors controller.
ErrorsInternalError ==
    /\ pc = "idle"
    /\ \E acquire_ok \in BOOLEAN, errs \in ErrTexts :
          /\ call' = [op |-> "errors::internal_error",
                      acquire_ok |-> acquire_ok, errs |-> errs]
          /\ ret' = errors_internal_error(acquire_ok, errs)
    /\ pc' = "done"
    /\ UNCHANGED <<debug_assertions, templates>>

\* ENV::from applied to a string.
EnvFrom ==
    /\ pc = "idle"
    /\ \E env \in EnvStrings :
          /\ call' = [op |-> "ENV::from", env |-> env]
          /\ ret' = Val(ENV_from(env))
    /\ pc' = "done"
    /\ UNCHANGED <<debug_assertions, templates>>

\* Settings::new run with SERVER_ENV unset or set, over a ./config directory.
SettingsNew ==
    /\ pc = "idle"
    /\ \E server_env \in {None} \cup {Some(e) : e \in EnvStrings} :
        \E dir \in ConfigDirs(server_env) :
          /\ call' = [op |-> "Settings::new", server_env |-> server_env,
                      dir |-> dir]
          /\ ret' = Settings_new(server_env, dir)
    /\ pc' = "done"
    /\ UNCHANGED <<debug_assertions, templates>>

\* The response has been handed back to the transport layer.
Respond ==
    /\ pc = "done"
    /\ pc' = "idle"
    /\ call' = NoCall
    /\ ret' = NoRet
    /\ UNCHANGED <<debug_assertions, templates>>

Next ==
    \/ TemplatesChanged
    \/ RenderTemplate
    \/ ParseEventImages
    \/ ParseEventsArray
    \/ ParseEventResponse
    \/ NewEventParams
    \/ GetEvents
    \/ StaticFile
    \/ MainPageNotFound
    \/ ErrorsPageNotFound
    \/ ErrorsInternalError
    \/ EnvFrom
    \/ SettingsNew
    \/ Respond

Spec == Init /\ [][Next]_vars

----------------------------------------------------------------------------
(* Template renderer: claims *)

RenderDone == pc = "done" /\ call.op = "render_template"

LookupSucceeds == get_template(templates, call.template, call.errs.lookup).tag = "Ok"
RenderSucceeds ==
    render(templates, call.template, EmptyContext, call.errs.render).tag = "Ok"

\* C1: every render call returns a (status, body) pair whose status is 200 or
\* 500; it is 200 exactly when acquiring the environment, looking up the
\* template and rendering it all succeed.
C1_StatusIs200Or500 ==
    RenderDone =>
        /\ DOMAIN ret = {"status", "body", "trail"}
        /\ ret.status \in {StatusCode_OK, StatusCode_INTERNAL_SERVER_ERROR}
        /\ ret.status = StatusCode_OK
               <=> (call.acquire_ok /\ LookupSucceeds /\ RenderSucceeds)

\* A render call whose template is found but fails to render answered 500.
C1_Witness ==
    /\ RenderDone
    /\ call.acquire_ok /\ LookupSucceeds /\ ~RenderSucceeds
    /\ ret.status = StatusCode_INTERNAL_SERVER_ERROR

GenericError500 ==
    /\ ret.status = StatusCode_INTERNAL_SERVER_ERROR
    /\ ret.body = ERROR_500_PROD

FallbackSucceeds == templates["internal_error.j2"] = "ok"

\* The parts of C2 on which the claim and the code agree.
C2_Order ==
    /\ ~call.acquire_ok =>
          /\ GenericError500
          /\ ret.trail = << <<"acquire_env">> >>
    /\ (call.acquire_ok /\ ~LookupSucceeds) =>
          /\ ret.status = StatusCode_INTERNAL_SERVER_ERROR
          /\ Len(ret.trail) >= 3
          /\ SubSeq(ret.trail, 1, 3) =
                << <<"acquire_env">>, <<"get_template", call.template>>,
                   <<"get_template", "internal_error.j2">> >>
          /\ FallbackSucceeds =>
                /\ ret.trail[Len(ret.trail)] = <<"render", "internal_error.j2">>
                /\ ret.body = TemplateOutput("internal_error.j2",
                                  ErrorContext(debug_assertions, call.errs.lookup))
    /\ (call.acquire_ok /\ LookupSucceeds /\ ~RenderSucceeds) =>
          /\ GenericError500
          /\ ret.trail = << <<"acquire_env">>, <<"get_template", call.template>>,
                            <<"render", call.template>> >>

\* C2 as stated: the fallback steps follow the stated order, and a failed
\* attempt at internal_error.j2 returns the generic 500 page.
C2_Original ==
    RenderDone =>
        /\ C2_Order
        /\ (call.acquire_ok /\ ~LookupSucceeds /\ ~FallbackSucceeds)
               => GenericError500

\* C2 as amended: the fallback steps follow the stated order; a failed
\* attempt at internal_error.j2 returns the generic 500 page in a production
\* build and, in a debug build, the 500 page that wraps the text of the error
\* internal_error.j2 raised.
C2_FallbackOrder ==
    RenderDone =>
        /\ C2_Order
        /\ (call.acquire_ok /\ ~LookupSucceeds /\ ~FallbackSucceeds) =>
              /\ ret.status = StatusCode_INTERNAL_SERVER_ERROR
              /\ ret.body = IF debug_assertions
                            THEN ERROR_500_DEBUG_START \o <<call.errs.fallback>>
                                     \o ERROR_500_DEBUG_END
                            ELSE ERROR_500_PROD

\* The requested template is missing and so is a usable internal_error.j2.
C2_Witness ==
    /\ RenderDone
    /\ call.acquire_ok /\ ~LookupSucceeds /\ ~FallbackSucceeds
    /\ call.template # "internal_error.j2"
    /\ templates["internal_error.j2"] = "render_error"
    /\ Len(ret.trail) = 4

MentionsError(body) == \E i \in DOMAIN body : body[i] \in ErrMsgs

DebugBodyMentionsError ==
    RenderDone /\ debug_assertions /\ MentionsError(ret.body)

----------------------------------------------------------------------------
(* TicketMaster adapter and request builder: claims *)

Done(op) == pc = "done" /\ call.op = op

\* The document has no _embedded, or its _embedded has no events.
MissingEvents(doc) ==
    \/ "_embedded" \notin DOMAIN doc
    \/ get(doc["_embedded"], "events").tag = "None"

\* C4: a document without _embedded or without _embedded.events makes
\* parse_event_response return a TicketMasterError, whatever else it holds.
C4_Original ==
    (Done("parse_event_response") /\ MissingEvents(call.event))
        => ret.tag = "Err"

\* C5: parse_event_response ends by returning an EventResult or a
\* TicketMasterError for every document; it never aborts.
C5_Original ==
    Done("parse_event_response") => ret.tag \in {"Ok", "Err"}

HasStr(v, key) ==
    get(v, key).tag = "Some" /\ as_str(get(v, key).val).tag = "Some"

CarriesRequired(event) ==
    HasStr(event, "name") /\ HasStr(event, "id") /\ HasStr(event, "url")

HasUrl(image) == get(image, "url").tag = "Some"

\* The images the claims expect of an event: its entries that have a url.
UrlEntries(event) ==
    IF get(event, "images").tag = "Some"
           /\ as_array(get(event, "images").val).tag = "Some"
    THEN SelectSeq(as_array(get(event, "images").val).val, HasUrl)
    ELSE <<>>

LinksMatch(images, entries) ==
    /\ Len(images) = Len(entries)
    /\ \A i \in DOMAIN images : Str(images[i].link) = entries[i].o["url"]

\* C6: an event object with string name, id and url yields an Event with
\* those three values, with the url-bearing entries as its images, and with
\* description, start, end and location None where description, dates and
\* place are absent.
C6_Original ==
    (Done("parse_events_array")
        /\ \A i \in DOMAIN call.events_array :
              CarriesRequired(call.events_array[i])) =>
        /\ ret.tag = "Val"
        /\ Len(ret.val) = Len(call.events_array)
        /\ \A i \in DOMAIN call.events_array :
              LET event == call.events_array[i]
                  parsed == ret.val[i]
              IN  /\ parsed.name = as_str(get(event, "name").val).val
                  /\ parsed.id = as_str(get(event, "id").val).val
                  /\ parsed.url = as_str(get(event, "url").val).val
                  /\ LinksMatch(parsed.images, UrlEntries(event))
                  /\ get(event, "description").tag = "None"
                         => parsed.description = None
                  /\ get(event, "dates").tag = "None"
                         => (parsed.start = None /\ parsed.end = None)
                  /\ get(event, "place").tag = "None"
                         => parsed.location = None

BothNone == call.search_terms.tag = "None" /\ call.location.tag = "None"

\* The query the claims expect: the term(s) given, search term first, joined
\* by one "&" when both are given.
JoinedTerms(args) ==
    IF args.search_terms.tag = "Some" /\ args.location.tag = "Some"
    THEN args.search_terms.val \o <<"&">> \o args.location.val
    ELSE IF args.search_terms.tag = "Some" THEN args.search_terms.val
    ELSE args.location.val

\* C7: EventParams::new fails exactly when search_terms and location are both
\* None; the query get_events appends to the prefix is the given term(s),
\* search term then location, with one "&" between them only when both are
\* given.
C7_ParamsAndQuery ==
    /\ Done("EventParams::new") =>
          /\ ret.tag \in {"Ok", "Err"}
          /\ ret.tag = "Err" <=> BothNone
          /\ ret.tag = "Ok" =>
                ret.val = [api_key |-> call.api_key,
                           search_terms |-> call.search_terms,
                           location |-> call.location]
    /\ Done("get_events") =>
          /\ call.args.search_terms.tag = "Some" \/ call.args.location.tag = "Some"
          /\ ret.endpoint = API_PREFIX \o JoinedTerms(call.args)

\* get_events was called with a location and no search term.
C7_Witness ==
    /\ Done("get_events")
    /\ call.args.search_terms.tag = "None"
    /\ call.args.location.tag = "Some"
    /\ call.args.location.val # <<>>

Occurs(part, whole) ==
    \E i \in 0 .. (Len(whole) - Len(part)) :
        SubSeq(whole, i + 1, i + Len(part)) = part

\* C8: the URL get_events requests is the events.json? endpoint followed by a
\* query that carries the API key as well as the term(s).
C8_Original ==
    Done("get_events") =>
        LET base == API_PREFIX \o EVENT_ENDPOINT
            url == ret.endpoint
        IN  /\ Len(url) >= Len(base)
            /\ SubSeq(url, 1, Len(base)) = base
            /\ Occurs(call.args.api_key, SubSeq(url, Len(base) + 1, Len(url)))
            /\ Occurs(JoinedTerms(call.args), SubSeq(url, Len(base) + 1, Len(url)))

UrlsAreStrings(images_array) ==
    \A i \in DOMAIN images_array :
        HasUrl(images_array[i]) => HasStr(images_array[i], "url")

\* C9: parse_event_images returns exactly the entries of the images array
\* that have a url (a string), in their order, and the empty sequence when
\* the event has no images.
C9_Original ==
    Done("parse_event_images") =>
        LET images == get(call.event, "images")
        IN  /\ images.tag = "None" => ret = Val(<<>>)
            /\ (images.tag = "Some" /\ as_array(images.val).tag = "Some"
                   /\ UrlsAreStrings(as_array(images.val).val)) =>
                  /\ ret.tag = "Val"
                  /\ LinksMatch(ret.val, UrlEntries(call.event))

\* Where parse_event_images returns at all, it returns the url-bearing entries.
ReturnedImagesAreUrlEntries ==
    (Done("parse_event_images") /\ ret.tag = "Val")
        => LinksMatch(ret.val, UrlEntries(call.event))

\* The date the claims expect for dates.start / dates.end of an event.
PreferredDate(event, which) ==
    LET point == IF get(event, "dates").tag = "Some"
                 THEN get(get(event, "dates").val, which)
                 ELSE None
        date_time == IF point.tag = "Some" THEN get(point.val, "dateTime") ELSE None
        local_date == IF point.tag = "Some" THEN get(point.val, "localDate") ELSE None
    IN  IF date_time.tag = "Some" THEN as_str(date_time.val)
        ELSE IF local_date.tag = "Some" THEN as_str(local_date.val)
        ELSE None

DatesMatch ==
    /\ ret.tag = "Val"
    /\ Len(ret.val) = Len(call.events_array)
    /\ \A i \in DOMAIN call.events_array :
          /\ ret.val[i].start = PreferredDate(call.events_array[i], "start")
          /\ ret.val[i].end = PreferredDate(call.events_array[i], "end")

\* C10: for the events of a response (each with its name, id and url), start
\* and end are the dateTime string when there is one, else the localDate
\* string when there is one, else None.
C10_Original ==
    (Done("parse_events_array")
        /\ \A i \in DOMAIN call.events_array :
              CarriesRequired(call.events_array[i]))
        => DatesMatch

\* Where parse_events_array returns at all, the dates are the preferred ones.
ReturnedDatesArePreferred ==
    (Done("parse_events_array") /\ ret.tag = "Val") => DatesMatch

----------------------------------------------------------------------------
(* Request handlers and settings: claims *)

InsideStaticRoot(location) ==
    /\ Len(location) >= Len(STATIC_ROOT)
    /\ SubSeq(location, 1, Len(STATIC_ROOT)) = STATIC_ROOT

\* C11: static_file never reads a file whose resolved location lies outside
\* the static root, whatever ".." segments the requested path contains.
C11_Original ==
    (Done("static_file") /\ ret.read.tag = "Some")
        => InsideStaticRoot(ret.read.val)

\* A request without ".." reads the file below the static root it names.
PlainPathsStayInside ==
    (Done("static_file") /\ ret.read.tag = "Some"
        /\ \A i \in DOMAIN call.path : call.path[i] # "..")
        => InsideStaticRoot(ret.read.val)

NotFoundPage == TemplateOutput("page_not_found.j2", EmptyContext)

NotFoundRenders ==
    call.acquire_ok /\ templates["page_not_found.j2"] = "ok"

\* C12: an unmatched route is answered with status 404 and the rendered
\* not-found page; page_not_found answers with no other status and does not
\* abort.
C12_Original ==
    (Done("main::page_not_found") \/ Done("errors::page_not_found")) =>
        /\ ret.tag = "Response"
        /\ ret.status = StatusCode_NOT_FOUND
        /\ ret.body = NotFoundPage

\* While page_not_found.j2 renders, both handlers answer 404 with the page;
\* when it does not, the controller's handler answers 500.
NotFoundWhileTemplateRenders ==
    /\ ((Done("main::page_not_found") \/ Done("errors::page_not_found"))
            /\ NotFoundRenders) =>
          ret = Response(StatusCode_NOT_FOUND, NotFoundPage)
    /\ (Done("errors::page_not_found") /\ ~NotFoundRenders) =>
          ret.status = StatusCode_INTERNAL_SERVER_ERROR

\* SERVER_ENV is set, ./config holds Default and a file of the requested
\* name, every required field is there, no file sets "env" and the config
\* crate compares variant names without regard to case.
SettingsLoadable ==
    /\ call.server_env.tag = "Some"
    /\ file_exists(call.dir, CONFIG_FILE_NAME)
    /\ file_exists(call.dir, call.server_env.val)
    /\ call.dir.complete
    /\ call.dir.file_env = None
    /\ call.dir.caseless_variants

\* C13: the environment Settings::new ends up with is the one ENV::from gives
\* for the value of SERVER_ENV: matched without regard to case, Testing for
\* every unrecognised string.
C13_Original ==
    (Done("Settings::new") /\ SettingsLoadable) =>
        /\ ret.tag = "Ok"
        /\ ret.val.env = ENV_from(call.server_env.val)

\* With such a configuration a value that spells a variant of ENV in any
\* letter case loads that variant, and every other value is refused.
SettingsKnowOnlyVariantNames ==
    (Done("Settings::new") /\ SettingsLoadable) =>
        IF \E v \in ENV :
              to_lowercase(VariantName(v)) = to_lowercase(call.server_env.val)
        THEN /\ ret.tag = "Ok"
             /\ to_lowercase(VariantName(ret.val.env))
                    = to_lowercase(call.server_env.val)
        ELSE ret = Err(ConfigError("unknown variant"))

\* C14: internal_error of the errors controller answers 500 with the body
\* render_template gives for internal_error.j2, whatever status the render
\* reports.
C14_Original ==
    Done("errors::internal_error") =>
        /\ ret.status = StatusCode_INTERNAL_SERVER_ERROR
        /\ ret.body = render_template(call.acquire_ok, "internal_error.j2",
                                      call.errs).body

====
